---- MODULE Spec2Model ----
\* A model of ompl::base::StateStorage (src/ompl/base/src/StateStorage.cpp):
\* an archive of state handles bound to one state space, its binary
\* store/load protocol, and the precomputed-sampler factory.
\*
\* Streams are sequences of cells; one cell is one fixed-width field (the
\* marker, one int of the signature, one size_t) or one payload byte.  A
\* stream that ends in the middle of a field keeps the surviving part of that
\* field in `tail`.  Size fields have SizeBits bits.
EXTENDS Integers, Sequences, FiniteSets, TLC

\* ------------------------------------------------------------------ bounds
MaxStates == 2   \* AddState / GenerateSamples keep the collection this small
MaxCount == 2    \* largest state_count of a forged header
MaxMeta == 1     \* largest metadata_size of a forged header
MaxByte == 1     \* payload bytes range over 0..MaxByte
SizeBits == 4    \* width of std::size_t in the model

ByteBase == MaxByte + 1
SizeMod == 2 ^ SizeBits
Max(a, b) == IF a >= b THEN a ELSE b
NumHandles == Max(MaxStates, MaxCount)
Handles == 1..NumHandles

\* ------------------------------------------------- the state space (external)
OMPL_ARCHIVE_MARKER == 1280331087   \* 0x4C504D4F

\* Three state spaces: 1 and 2 have signatures of the same declared length
\* and different bodies, 3 has a shorter signature; 2 is an empty compound
\* space (every signature element after the length is 0, no bytes per state).
Spaces == {1, 2, 3}

computeSignature(sp) ==
    CASE sp = 1 -> <<2, 1, 3>>
      [] sp = 2 -> <<2, 0, 0>>
      [] sp = 3 -> <<1, 1>>

getSerializationLength(sp) ==
    CASE sp = 1 -> 2
      [] sp = 2 -> 0
      [] sp = 3 -> 1

\* A state of space sp is a number below ByteBase^l; serialize writes its l
\* digits, least significant first, deserialize reads them back.  Callers and
\* samplers produce the two values whose digits are <<1, 0, ..>> and <<0, 1, ..>>.
StateValues(sp) ==
    LET m == ByteBase ^ getSerializationLength(sp) IN {1 % m, ByteBase % m}

RECURSIVE serialize(_, _)
serialize(v, l) ==
    IF l = 0 THEN <<>> ELSE <<v % ByteBase>> \o serialize(v \div ByteBase, l - 1)

RECURSIVE deserialize(_)
deserialize(bytes) ==
    IF bytes = <<>> THEN 0
    ELSE bytes[1] + ByteBase * deserialize(Tail(bytes))

FreeCell == [live |-> FALSE, val |-> 0]

\* allocState: the lowest handle that is not live.
allocState(hp) ==
    CHOOSE h \in Handles : ~hp[h].live /\ \A g \in Handles : g < h => hp[g].live

freeState(hp, h) == [hp EXCEPT ![h] = FreeCell]

\* ------------------------------------------------------------------ streams
\* An input stream: its cells, a read position and the state bits.
OpenIn(cells, tail, okOpen) ==
    [cells |-> cells, tail |-> tail, pos |-> 0, eof |-> FALSE, fail |-> ~okOpen]

good(s) == ~s.eof /\ ~s.fail

\* in.read((char*)&x, sizeof x) with x initialised to init: the value x holds
\* afterwards and the stream afterwards.
read(s, init) ==
    IF ~good(s) THEN [v |-> init, in |-> [s EXCEPT !.fail = TRUE]]
    ELSE IF s.pos < Len(s.cells)
         THEN [v |-> s.cells[s.pos + 1], in |-> [s EXCEPT !.pos = s.pos + 1]]
         ELSE [v |-> IF s.tail = <<>> THEN init ELSE s.tail[1],
               in |-> [s EXCEPT !.eof = TRUE, !.fail = TRUE]]

\* in.read(buffer, length): the bytes that reached the buffer.
readBulk(s, length) ==
    IF ~good(s) THEN [buf |-> <<>>, in |-> [s EXCEPT !.fail = TRUE]]
    ELSE IF Len(s.cells) - s.pos >= length
         THEN [buf |-> SubSeq(s.cells, s.pos + 1, s.pos + length),
               in |-> [s EXCEPT !.pos = s.pos + length]]
         ELSE [buf |-> SubSeq(s.cells, s.pos + 1, Len(s.cells)),
               in |-> [s EXCEPT !.pos = Len(s.cells), !.eof = TRUE, !.fail = TRUE]]

\* --------------------------------------------------------------- diagnostics
\* The messages of msg_.warn / msg_.error, and the error kind each one is.
ErrorKind(msg) ==
    CASE msg = "none" -> "none"
      [] msg = "Unable to load states" -> "IOUnavailable"
      [] msg = "Unable to store states" -> "IOUnavailable"
      [] msg = "The stored data does not start with the correct header" -> "FormatError"
      [] msg = "State space signatures do not match" -> "SignatureMismatch"
      [] msg = "Expected number of states. Incorrect file format" -> "TruncatedHeader"
      [] msg = "Expected metadata size. Incorrect file format" -> "TruncatedHeader"
      [] msg = "Expected state data. Incorrect file format" -> "TruncatedHeader"
      [] msg = "Unable to read state data. Incorrect file format" -> "TruncatedData"

\* msg_.warn or msg_.error: the level each message is reported at.
Severity(msg) ==
    CASE msg = "none" -> "none"
      [] msg \in {"Unable to load states", "Unable to store states"} -> "warn"
      [] OTHER -> "error"

\* ---------------------------------------------------------------- variables
VARIABLES
    alive,     \* the archive object exists
    space_,    \* the state space the archive is bound to
    states_,   \* the collection: a sequence of state handles
    heap,      \* the state space's states: handle -> [live, val]
    file,      \* the archive file: its cells, and how it came to be
    factory,   \* the last sampler allocator handed out, or <<>>
    sampler,   \* the last sampler a factory returned, or <<>>
    last       \* the last operation: its arguments, outcome and event trace

vars == <<alive, space_, states_, heap, file, factory, sampler, last>>

EmptyFile ==
    [cells |-> <<>>, by |-> "none", space |-> 0, orig |-> <<>>]

Init ==
    /\ alive = TRUE
    /\ space_ \in Spaces
    /\ states_ = <<>>
    /\ heap = [h \in Handles |-> FreeCell]
    /\ file = EmptyFile
    /\ factory = <<>>
    /\ sampler = <<>>
    /\ last = [op |-> "construct"]

\* ------------------------------------------------------- archive operations
\* The one element of a singleton set: Only({e(x) : x \in {d}}) is e(d) with
\* d evaluated once.
Only(S) == CHOOSE x \in S : TRUE

\* A variant of addState that inserts at the front.
addStateFront(states, h) == <<h>> \o states

\* addState: push_back of the handle, nothing else.
addState(states, h) == Append(states, h)

\* A variant of clear that releases nothing and keeps the collection.
clearKeeps(hp, states) == [heap |-> hp, states |-> states, trace |-> <<>>]

\* A variant of clear that hands every element to freeState twice.
clearTwice(hp, states) ==
    [heap |-> [h \in Handles |-> IF \E i \in DOMAIN states : states[i] = h
                                 THEN FreeCell ELSE hp[h]],
     states |-> <<>>,
     trace |-> [i \in 1..(2 * Len(states)) |-> <<"free", states[(i + 1) \div 2]>>]]

\* A variant of the loop of clear that starts at the second element.
RECURSIVE freeAllButFirst(_, _, _)
freeAllButFirst(hp, states, i) ==
    IF i > Len(states) THEN hp
    ELSE IF i = 1 THEN freeAllButFirst(hp, states, i + 1)
    ELSE freeAllButFirst(freeState(hp, states[i]), states, i + 1)

\* clear: freeState on every element in order, then states_.clear().
RECURSIVE freeAll(_, _, _)
freeAll(hp, states, i) ==
    IF i > Len(states) THEN hp
    ELSE freeAll(freeState(hp, states[i]), states, i + 1)

clear(hp, states) ==
    [heap |-> freeAll(hp, states, 1),
     states |-> <<>>,
     trace |-> [i \in 1..Len(states) |-> <<"free", states[i]>>]]

\* A variant of the signature loop that compares element i of the body with
\* sig[i] instead of sig[i + 1].
RECURSIVE signatureLoopShifted(_, _, _, _)
signatureLoopShifted(in, i, signature_length, sig) ==
    IF ~(good(in) /\ i < signature_length) THEN [mismatch |-> FALSE, in |-> in]
    ELSE Only({ IF s.v # sig[i + 1] THEN [mismatch |-> TRUE, in |-> s.in]
                ELSE signatureLoopShifted(s.in, i + 1, signature_length, sig)
                : s \in {read(in, 0)} })

\* The signature loop of loadHeader: i counts the elements compared so far,
\* s is the element read (sig[i + 1] of the code is sig[i + 2] here).
RECURSIVE signatureLoop(_, _, _, _)
signatureLoop(in, i, signature_length, sig) ==
    IF ~(good(in) /\ i < signature_length) THEN [mismatch |-> FALSE, in |-> in]
    ELSE Only({ IF s.v # sig[i + 2] THEN [mismatch |-> TRUE, in |-> s.in]
                ELSE signatureLoop(s.in, i + 1, signature_length, sig)
                : s \in {read(in, 0)} })

HeaderFailure(msg, stage, in) ==
    [ok |-> FALSE, msg |-> msg, stage |-> stage, in |-> in,
     state_count |-> 0, metadata_size |-> 0]

\* loadHeader, from its last read to its first.  c and md are the reads of
\* state_count and metadata_size.
headerCounts(in) ==
    IF ~good(in)
    THEN HeaderFailure("Expected number of states. Incorrect file format", "state_count", in)
    ELSE Only({
        IF ~good(c.in)
        THEN HeaderFailure("Expected metadata size. Incorrect file format",
                           "metadata_size", c.in)
        ELSE Only({
            IF c.v > 0 /\ ~good(md.in)
            THEN HeaderFailure("Expected state data. Incorrect file format",
                               "state_data", md.in)
            ELSE [ok |-> TRUE, msg |-> "none", stage |-> "done", in |-> md.in,
                  state_count |-> c.v, metadata_size |-> md.v]
            : md \in {read(c.in, 0)} })
        : c \in {read(in, 0)} })

\* n is the read of signature_length, lp the outcome of the signature loop.
headerSignature(in, sig) ==
    Only({
        IF sig[1] # n.v
        THEN HeaderFailure("State space signatures do not match", "signature_length", n.in)
        ELSE Only({
            IF lp.mismatch
            THEN HeaderFailure("State space signatures do not match", "signature", lp.in)
            ELSE headerCounts(lp.in)
            : lp \in {signatureLoop(n.in, 0, n.v, sig)} })
        : n \in {IF good(in) THEN read(in, 0) ELSE [v |-> 0, in |-> in]} })

\* loadHeader: stage names the field at which decoding stopped; m is the read
\* of the marker.
loadHeader(in0, sp) ==
    IF ~good(in0) \/ in0.eof
    THEN HeaderFailure("Unable to load states", "open", in0)
    ELSE Only({
        IF m.v # OMPL_ARCHIVE_MARKER
        THEN HeaderFailure("The stored data does not start with the correct header",
                           "marker", m.in)
        ELSE headerSignature(m.in, computeSignature(sp))
        : m \in {read(in0, 0)} })

\* What the state space and the machine do to one call (inputs of load and
\* store): failAt is the iteration of the per-state pass at which the state
\* space throws (NoFail: it never does); wild is what a read outside the
\* scratch buffer does, a byte value it yields or Segv, the process dying.
NoFail == -1
Segv == -1

\* The l bytes at buffer + off; a byte outside the buffer reads as wild.
Peek(buffer, off, l, wild) ==
    [j \in 1..l |-> IF off + j <= Len(buffer) THEN buffer[off + j] ELSE wild]

InBuffer(buffer, off, l) == l = 0 \/ off + l <= Len(buffer)

\* The archive as load's per-state pass starts on it, after clear().
Cleared(c) ==
    [heap |-> c.heap, states |-> c.states, trace |-> c.trace,
     raised |-> FALSE, crashed |-> FALSE, oob |-> FALSE]

\* The per-state pass of load: allocState, deserialize at the record's offset
\* (a std::size_t product), addState, for i = 0 .. state_count - 1.
RECURSIVE deserializeLoop(_, _, _, _, _, _, _, _)
deserializeLoop(st, i, state_count, buffer, l, metadata_size, wild, failAt) ==
    IF i >= state_count THEN st
    ELSE IF i = failAt THEN [st EXCEPT !.raised = TRUE]
    ELSE Only({
        IF ~InBuffer(buffer, off, l) /\ wild = Segv
        THEN [st EXCEPT !.crashed = TRUE, !.oob = TRUE]
        ELSE deserializeLoop(
                [heap |-> [st.heap EXCEPT ![s] =
                             [live |-> TRUE,
                              val |-> deserialize(Peek(buffer, off, l, wild))]],
                 states |-> addState(st.states, s),
                 trace |-> st.trace \o <<<<"alloc", s>>, <<"append", s>>>>,
                 raised |-> FALSE, crashed |-> FALSE,
                 oob |-> st.oob \/ ~InBuffer(buffer, off, l)],
                i + 1, state_count, buffer, l, metadata_size, wild, failAt)
        : s \in {allocState(st.heap)},
          off \in {(i * ((l + metadata_size) % SizeMod)) % SizeMod} })

\* What load reports about the header it decoded.
LoadInfo(hd, length) ==
    [hdrOk |-> hd.ok, stage |-> hd.stage, state_count |-> hd.state_count,
     metadata_size |-> hd.metadata_size, length |-> IF hd.ok THEN length ELSE 0]

\* The scratch buffer of one call: how many times it was obtained from malloc
\* and how many times it was handed to free.
Scratch(acquired, released) == [acquired |-> acquired, released |-> released]

\* A variant of the payload part of load that, after a short bulk read, still
\* decodes the records that reached the buffer whole.
loadPayloadPrefix(base, hd, l, length, wild, failAt) ==
    IF length = 0
    THEN [st |-> base, msg |-> "none", in |-> hd.in, bulk |-> "none",
          info |-> LoadInfo(hd, length), scratch |-> Scratch(0, 0)]
    ELSE Only({
        Only({
            [st |-> done,
             msg |-> IF rd.in.fail THEN "Unable to read state data. Incorrect file format"
                     ELSE "none",
             in |-> rd.in, bulk |-> IF rd.in.fail THEN "short" ELSE "ok",
             info |-> LoadInfo(hd, length),
             scratch |-> Scratch(1, IF done.raised \/ done.crashed THEN 0 ELSE 1)]
            : done \in {deserializeLoop(base, 0,
                            IF rd.in.fail THEN Len(rd.buf) \div (l + hd.metadata_size)
                            ELSE hd.state_count,
                            rd.buf, l, hd.metadata_size, wild, failAt)} })
        : rd \in {readBulk(hd.in, length)} })

\* load after an accepted header: the buffer, the bulk read, the per-state
\* pass and free(buffer), which a throw out of the pass skips.  base is the
\* archive after clear(), hd the decoded header.
loadPayload(base, hd, l, length, wild, failAt) ==
    IF length = 0
    THEN [st |-> base, msg |-> "none", in |-> hd.in, bulk |-> "none",
          info |-> LoadInfo(hd, length), scratch |-> Scratch(0, 0)]
    ELSE Only({
        IF ~rd.in.fail
        THEN Only({ [st |-> done, msg |-> "none", in |-> rd.in, bulk |-> "ok",
                     info |-> LoadInfo(hd, length),
                     scratch |-> Scratch(1, IF done.raised \/ done.crashed THEN 0 ELSE 1)]
                    : done \in {deserializeLoop(base, 0, hd.state_count, rd.buf, l,
                                                hd.metadata_size, wild, failAt)} })
        ELSE [st |-> base, msg |-> "Unable to read state data. Incorrect file format",
              in |-> rd.in, bulk |-> "short", info |-> LoadInfo(hd, length),
              scratch |-> Scratch(1, 1)]
        : rd \in {readBulk(hd.in, length)} })

\* load(std::istream&): what the archive, the heap and the stream end as.
load(hp, states, in0, sp, wild, failAt) ==
    Only({
        IF ~hd.ok
        THEN [st |-> Cleared(c), msg |-> hd.msg, in |-> hd.in, bulk |-> "none",
              info |-> LoadInfo(hd, 0), scratch |-> Scratch(0, 0)]
        ELSE loadPayload(Cleared(c), hd, getSerializationLength(sp),
                 (hd.state_count * ((getSerializationLength(sp) + hd.metadata_size)
                                        % SizeMod)) % SizeMod,
                 wild, failAt)
        : c \in {clear(hp, states)}, hd \in {loadHeader(in0, sp)} })

\* A variant of the serialization pass that puts state i at offset i.
RECURSIVE serializeLoopPacked(_, _, _, _, _)
serializeLoopPacked(buffer, i, hp, states, l) ==
    IF i >= Len(states) THEN buffer
    ELSE Only({
        serializeLoopPacked(next, i + 1, hp, states, l)
        : next \in {[j \in 1..Len(buffer) |->
                       IF j > i /\ j <= i + l
                       THEN serialize(hp[states[i + 1]].val, l)[j - i]
                       ELSE buffer[j]]} })

\* The serialization pass of store: state i goes to offset i * l.
RECURSIVE serializeLoop(_, _, _, _, _)
serializeLoop(buffer, i, hp, states, l) ==
    IF i >= Len(states) THEN buffer
    ELSE Only({
        serializeLoop(next, i + 1, hp, states, l)
        : next \in {[j \in 1..Len(buffer) |->
                       IF j > i * l /\ j <= i * l + l
                       THEN serialize(hp[states[i + 1]].val, l)[j - i * l]
                       ELSE buffer[j]]} })

\* store(std::ostream&) on a good stream: the cells written, in order.  The
\* buffer malloc returns holds length bytes of no particular value (-1).
store(hp, states, sp) ==
    Only({
        <<OMPL_ARCHIVE_MARKER>> \o computeSignature(sp)
            \o <<Len(states) % SizeMod>> \o <<0>>
            \o serializeLoop(buffer, 0, hp, states, getSerializationLength(sp))
        : buffer \in {[j \in 1..((getSerializationLength(sp) * Len(states)) % SizeMod)
                         |-> -1]} })

\* store when the state space's serialize throws in the per-state pass: the
\* four header writes have been made, out.write(buffer, length) and
\* free(buffer) are not reached.
storeRaised(states, sp) ==
    [written |-> <<OMPL_ARCHIVE_MARKER>> \o computeSignature(sp)
                     \o <<Len(states) % SizeMod>> \o <<0>>,
     msg |-> "none", raised |-> TRUE, scratch |-> Scratch(1, 0)]

\* A variant of store that writes the marker before it looks at the stream.
storeUnwritableMarker ==
    [written |-> <<OMPL_ARCHIVE_MARKER>>, msg |-> "Unable to store states",
     raised |-> FALSE, scratch |-> Scratch(0, 0)]

\* store(std::ostream&) on a stream that is not good(): the write calls made,
\* the message reported, and whether anything was thrown.
storeUnwritable ==
    [written |-> <<>>, msg |-> "Unable to store states", raised |-> FALSE,
     scratch |-> Scratch(0, 0)]

\* A variant of print that releases the states it has printed.
printConsumes(hp, states) ==
    [out |-> [i \in 1..Len(states) |-> hp[states[i]].val],
     heap |-> [h \in Handles |-> IF \E i \in DOMAIN states : states[i] = h
                                 THEN FreeCell ELSE hp[h]],
     states |-> <<>>]

\* print: printState on every element in order; the collection and the
\* states afterwards.
print(hp, states) ==
    [out |-> [i \in 1..Len(states) |-> hp[states[i]].val],
     heap |-> hp,
     states |-> states]

\* generateSamples: the loop.  vals are the values sampleUniform gives to the
\* states it is handed; the state space's allocState fails (throws) at
\* iteration Len(vals) when that is below count.
RECURSIVE sampleLoop(_, _, _, _)
sampleLoop(st, i, count, vals) ==
    IF i >= count THEN st
    ELSE IF i >= Len(vals) THEN [st EXCEPT !.raised = TRUE]
    ELSE Only({
        sampleLoop(
            [heap |-> [st.heap EXCEPT ![s] = [live |-> TRUE, val |-> vals[i + 1]]],
             states |-> addState(st.states, s),
             trace |-> st.trace \o <<<<"alloc", s>>, <<"append", s>>>>,
             raised |-> FALSE],
            i + 1, count, vals)
        : s \in {allocState(st.heap)} })

\* samplerOk: allocStateSampler returned a sampler (it did not throw).
generateSamples(hp, states, count, vals, samplerOk) ==
    IF ~samplerOk
    THEN [heap |-> hp, states |-> states, trace |-> <<>>, raised |-> TRUE]
    ELSE sampleLoop([heap |-> hp, states |-> states, trace |-> <<>>, raised |-> FALSE],
                    0, count, vals)

\* A variant of the binding that captures the collection's contents.
BindStatesCopy(states) == [byRef |-> FALSE, copy |-> states]

\* boost::bind(&allocPrecomputedStateSampler, _1, sig, &states_): the third
\* bound argument is the address of the collection, not its contents.
BindStates(states) == [byRef |-> TRUE, copy |-> <<>>]

\* *states, at the time the factory is invoked or the sampler draws.
Deref(ref, states) == IF ref.byRef THEN states ELSE ref.copy

\* created: the collection when the factory was made (history only).
getStateSamplerAllocator(sp, states) ==
    [sig |-> computeSignature(sp), states |-> BindStates(states), created |-> states]

\* A variant of the comparison that looks at the declared lengths only.
SignaturesDifferInLength(sig, expectedSignature) == sig[1] # expectedSignature[1]

SignaturesDiffer(sig, expectedSignature) == sig # expectedSignature

\* allocPrecomputedStateSampler(space, expectedSignature, states)
allocPrecomputedStateSampler(space, expectedSignature, states) ==
    IF SignaturesDiffer(computeSignature(space), expectedSignature)
    THEN [raised |-> TRUE, sampler |-> <<>>]
    ELSE [raised |-> FALSE, sampler |-> [space |-> space, states |-> states]]

Range(f) == {f[i] : i \in DOMAIN f}

\* ------------------------------------------------------------------ actions
\* What a clear() remembers of the operation before it: its name and, when
\* that was a clear() too, how many states it released (history only).
Before(l) == IF l.op = "clear" THEN <<"clear", Len(l.pre)>> ELSE <<l.op, 0>>

\* ~StateStorage: clear().  The caller has dropped the factory and the
\* samplers of the archive, whose reference to states_ dies with it.
Destruct ==
    /\ alive
    /\ \E c \in {clear(heap, states_)} :
           /\ heap' = c.heap
           /\ states_' = c.states
           /\ last' = [op |-> "destruct", pre |-> states_, trace |-> c.trace,
                       after |-> Before(last), raised |-> FALSE]
    /\ alive' = FALSE
    /\ factory' = <<>>
    /\ sampler' = <<>>
    /\ UNCHANGED <<space_, file>>

\* The caller allocates a state of the bound space, gives it the value v and
\* hands it over.
AddState(v) ==
    /\ alive
    /\ Len(states_) < MaxStates
    /\ \E h \in {allocState(heap)} :
           /\ heap' = [heap EXCEPT ![h] = [live |-> TRUE, val |-> v]]
           /\ states_' = addState(states_, h)
           /\ last' = [op |-> "addState", pre |-> states_, h |-> h,
                       trace |-> <<<<"append", h>>>>]
    /\ UNCHANGED <<alive, space_, file, factory, sampler>>

GenerateSamples(count, vals, samplerOk) ==
    /\ alive
    /\ Len(states_) + count <= MaxStates
    /\ ~samplerOk => vals = <<>>
    /\ \E r \in {generateSamples(heap, states_, count, vals, samplerOk)} :
           /\ heap' = r.heap
           /\ states_' = r.states
           /\ last' = [op |-> "generateSamples", pre |-> states_, count |-> count,
                       vals |-> vals, raised |-> r.raised, trace |-> r.trace]
    /\ UNCHANGED <<alive, space_, file, factory, sampler>>

Clear ==
    /\ alive
    /\ \E c \in {clear(heap, states_)} :
           /\ heap' = c.heap
           /\ states_' = c.states
           /\ last' = [op |-> "clear", pre |-> states_, trace |-> c.trace,
                       after |-> Before(last), raised |-> FALSE]
    /\ UNCHANGED <<alive, space_, file, factory, sampler>>

Store(writable, failAt) ==
    /\ alive
    /\ failAt # NoFail => (writable /\ failAt < Len(states_))
    /\ IF ~writable
       THEN /\ last' = [op |-> "store", writable |-> FALSE, pre |-> states_,
                        heapPre |-> heap,
                        msg |-> storeUnwritable.msg,
                        written |-> storeUnwritable.written,
                        raised |-> storeUnwritable.raised,
                        scratch |-> storeUnwritable.scratch]
            /\ UNCHANGED file
       ELSE IF failAt # NoFail
       THEN \E r \in {storeRaised(states_, space_)} :
                /\ file' = [cells |-> r.written, by |-> "partial", space |-> space_,
                            orig |-> <<>>]
                /\ last' = [op |-> "store", writable |-> TRUE, pre |-> states_,
                            heapPre |-> heap,
                            msg |-> r.msg, written |-> r.written, raised |-> r.raised,
                            scratch |-> r.scratch]
       ELSE \E out \in {store(heap, states_, space_)} :
                /\ file' = [cells |-> out, by |-> "store", space |-> space_,
                            orig |-> [i \in 1..Len(states_) |->
                                        serialize(heap[states_[i]].val,
                                                  getSerializationLength(space_))]]
                /\ last' = [op |-> "store", writable |-> TRUE, pre |-> states_,
                            heapPre |-> heap,
                            msg |-> "none", written |-> out, raised |-> FALSE,
                            scratch |-> Scratch(1, 1)]
    /\ UNCHANGED <<alive, space_, states_, heap, factory, sampler>>

PrintStates ==
    /\ alive
    /\ \E r \in {print(heap, states_)} :
           /\ heap' = r.heap
           /\ states_' = r.states
           /\ last' = [op |-> "print", pre |-> states_, heapPre |-> heap,
                       printed |-> r.out, raised |-> FALSE]
    /\ UNCHANGED <<alive, space_, file, factory, sampler>>

\* The stream a caller hands to load: the file's first k cells (all of them
\* when k is the file's length), the first cell overwritten when the marker
\* was corrupted, and, when the stream ends inside header field k + 1, the
\* first byte of that field.
BadMarker == OMPL_ARCHIVE_MARKER - 1
HeaderCells(f) == IF f.by = "none" THEN 0 ELSE 1 + Len(computeSignature(f.space)) + 2
PartialValue(v) == v % 256

StreamCells(f, k, markerOk) ==
    [j \in 1..k |-> IF j = 1 /\ ~markerOk THEN BadMarker ELSE f.cells[j]]

StreamTail(f, k, partial) ==
    IF partial THEN <<PartialValue(f.cells[k + 1])>> ELSE <<>>

Load(okOpen, k, partial, markerOk, wild, failAt) ==
    /\ alive
    /\ k <= Len(file.cells)
    /\ partial => k < Len(file.cells) /\ k < HeaderCells(file)
    /\ ~markerOk => k = Len(file.cells) /\ k >= 1
    /\ ~okOpen => k = Len(file.cells) /\ markerOk
    /\ (k < Len(file.cells) \/ ~markerOk \/ ~okOpen) => (wild = 0 /\ failAt = NoFail)
    /\ \E in0 \in {OpenIn(StreamCells(file, k, markerOk), StreamTail(file, k, partial),
                          okOpen)} :
         \E r \in {load(heap, states_, in0, space_, wild, failAt)} :
           /\ failAt # NoFail => r.st.raised
           /\ wild # 0 => r.st.oob
           /\ heap' = r.st.heap
           /\ states_' = r.st.states
           /\ alive' = ~r.st.crashed
           /\ last' = [op |-> "load", okOpen |-> okOpen, whole |-> k = Len(file.cells),
                       markerOk |-> markerOk, pre |-> states_,
                       trace |-> r.st.trace, msg |-> r.msg, in0 |-> in0,
                       in |-> r.in, bulk |-> r.bulk, info |-> r.info,
                       raised |-> r.st.raised, crashed |-> r.st.crashed,
                       oob |-> r.st.oob, scratch |-> r.scratch]
    /\ UNCHANGED <<space_, file, factory, sampler>>

GetStateSamplerAllocator ==
    /\ alive
    /\ factory' = getStateSamplerAllocator(space_, states_)
    /\ last' = [op |-> "getStateSamplerAllocator", pre |-> states_]
    /\ UNCHANGED <<alive, space_, states_, heap, file, sampler>>

\* The factory is called with a candidate state space.  The sampler it
\* returns remembers the collection its factory was made over (history only).
InvokeFactory(sp) ==
    /\ factory # <<>>
    /\ \E r \in {allocPrecomputedStateSampler(sp, factory.sig, factory.states)} :
           /\ sampler' = IF r.raised THEN sampler
                         ELSE [space |-> r.sampler.space, states |-> r.sampler.states,
                               created |-> factory.created]
           /\ last' = [op |-> "invoke", space |-> sp, raised |-> r.raised,
                       returned |-> r.sampler, expected |-> factory.sig]
    /\ UNCHANGED <<alive, space_, states_, heap, file, factory>>

\* The sampler draws the state at a 1-based index of the collection it was
\* given.
Sample(idx) ==
    /\ sampler # <<>>
    /\ \E population \in {Deref(sampler.states, states_)} :
           /\ idx \in 1..Len(population)
           /\ last' = [op |-> "sample", idx |-> idx, h |-> population[idx],
                       range |-> Len(population), created |-> sampler.created]
    /\ UNCHANGED <<alive, space_, states_, heap, file, factory, sampler>>

\* Another producer writes a file of the archive layout: the marker, the
\* signature of some space, the two size fields and count records, record i
\* holding a state's l bytes followed by meta bytes of metadata, each of
\* value fill.
ForgedState(i, sp) ==
    serialize((i + 1) % (ByteBase ^ getSerializationLength(sp)),
              getSerializationLength(sp))

ForgedRecord(i, sp, meta, fill) ==
    ForgedState(i, sp) \o [j \in 1..meta |-> fill]

RECURSIVE ForgedPayload(_, _, _, _, _)
ForgedPayload(i, count, sp, meta, fill) ==
    IF i >= count THEN <<>>
    ELSE ForgedRecord(i, sp, meta, fill) \o ForgedPayload(i + 1, count, sp, meta, fill)

Forge(sp, count, meta, fill) ==
    /\ meta = 0 => fill = 0
    /\ file' = [cells |-> <<OMPL_ARCHIVE_MARKER>> \o computeSignature(sp)
                          \o <<count, meta>> \o ForgedPayload(0, count, sp, meta, fill),
                by |-> "forge", space |-> sp,
                orig |-> [i \in 1..count |-> ForgedState(i - 1, sp)]]
    /\ last' = [op |-> "forge"]
    /\ UNCHANGED <<alive, space_, states_, heap, factory, sampler>>

\* Another producer writes a header whose size product does not fit the size
\* field: state_count * (l + metadata_size) is 2^SizeBits or more.  The file
\* holds as many payload bytes as the product is modulo 2^SizeBits.
WrappedLength(sp, count, meta) ==
    (count * ((getSerializationLength(sp) + meta) % SizeMod)) % SizeMod

PayloadRoom == Max(MaxCount * (2 + MaxMeta), MaxStates * 2)

ForgeWrapped(sp, count, meta) ==
    /\ count * (getSerializationLength(sp) + meta) >= SizeMod
    /\ WrappedLength(sp, count, meta) <= PayloadRoom
    /\ file' = [cells |-> <<OMPL_ARCHIVE_MARKER>> \o computeSignature(sp)
                          \o <<count, meta>>
                          \o [j \in 1..WrappedLength(sp, count, meta) |-> j % ByteBase],
                by |-> "forge", space |-> sp, orig |-> <<>>]
    /\ last' = [op |-> "forge"]
    /\ UNCHANGED <<alive, space_, states_, heap, factory, sampler>>

MaxCells == 1 + 3 + 2 + PayloadRoom

\* The operations that change the collection.
Grow ==
    \/ \E v \in StateValues(space_) : AddState(v)
    \/ \E count \in 0..MaxStates :
         \E n \in 0..count :
           \E vals \in [1..n -> StateValues(space_)] :
             \E samplerOk \in BOOLEAN :
               GenerateSamples(count, vals, samplerOk)

\* The archive and its files: every operation but the sampler factory, which
\* neither reads nor writes the file and which store and load do not touch.
\* The state space does not throw inside load and store, and no header makes
\* the size product wrap.
ArchiveNext ==
    \/ Grow
    \/ Clear
    \/ Destruct
    \/ PrintStates
    \/ \E writable \in BOOLEAN : Store(writable, NoFail)
    \/ \E okOpen \in BOOLEAN, k \in 0..MaxCells, partial \in BOOLEAN, markerOk \in BOOLEAN :
         Load(okOpen, k, partial, markerOk, 0, NoFail)
    \/ \E sp \in Spaces, count \in 0..MaxCount, meta \in 0..MaxMeta, fill \in {0, MaxByte} :
         Forge(sp, count, meta, fill)

\* The archive under faults: the state space throws in the middle of load's or
\* store's per-state pass, and files carry headers whose size product wraps.
\* Streams open and carry the marker; they may end anywhere between fields.
FaultNext ==
    \/ Grow
    \/ Clear
    \/ Destruct
    \/ PrintStates
    \/ \E writable \in BOOLEAN, failAt \in {NoFail} \cup 0..(MaxStates - 1) :
         Store(writable, failAt)
    \/ \E k \in 0..MaxCells, wild \in {Segv} \cup 0..MaxByte,
          failAt \in {NoFail} \cup 0..(MaxCount - 1) :
         Load(TRUE, k, FALSE, TRUE, wild, failAt)
    \/ \E sp \in Spaces, count \in 0..MaxCount, meta \in 0..MaxMeta :
         Forge(sp, count, meta, 0)
    \/ \E sp \in Spaces, count \in 1..MaxCount, meta \in (SizeMod - 2)..(SizeMod - 1) :
         ForgeWrapped(sp, count, meta)

\* The archive and its sampler factory: the collection grows and shrinks
\* while factories and samplers made from it are in use.
SamplerNext ==
    \/ Grow
    \/ Clear
    \/ Destruct
    \/ GetStateSamplerAllocator
    \/ \E sp \in Spaces : InvokeFactory(sp)
    \/ \E idx \in 1..MaxStates : Sample(idx)

SpecArchive == Init /\ [][ArchiveNext]_vars
SpecSampler == Init /\ [][SamplerNext]_vars
SpecFaults == Init /\ [][FaultNext]_vars

\* =================================================================== claims
l_ == getSerializationLength(space_)
sig_ == computeSignature(space_)
Value(h) == serialize(heap[h].val, l_)
Events(kind) == {i \in DOMAIN last.trace : last.trace[i][1] = kind}
Returned == ~last.raised /\ ~last.crashed
LoadedWholeFile ==
    last.op = "load" /\ last.okOpen /\ last.whole /\ last.markerOk /\ Returned

\* The trace frees exactly the handles of pre, in order, before anything else.
FreesFirst(pre, trace) ==
    /\ Len(trace) >= Len(pre)
    /\ \A i \in 1..Len(pre) : trace[i] = <<"free", pre[i]>>
    /\ \A i \in (Len(pre) + 1)..Len(trace) : trace[i][1] # "free"

\* Every handle of the collection was allocated by the last operation.
AllFresh == \A i \in DOMAIN states_ : <<"alloc", states_[i]>> \in Range(last.trace)

\* C1: store followed by load of the whole stored file, into an archive bound
\* to the same space, yields as many states as were stored, with the same
\* serialized bytes in the same order (also for no states at all).
C1_RoundTrip ==
    (LoadedWholeFile /\ file.by = "store" /\ file.space = space_)
        => /\ Len(states_) = Len(file.orig)
           /\ \A i \in DOMAIN states_ : Value(states_[i]) = file.orig[i]

\* C2: a load whose header is accepted and whose payload is complete leaves
\* exactly state_count states, all allocated by this load, and has freed every
\* handle held before, before appending any.
C2_LoadReplaces ==
    (last.op = "load" /\ last.info.hdrOk /\ last.bulk # "short" /\ Returned)
        => /\ Len(states_) = last.info.state_count
           /\ AllFresh
           /\ FreesFirst(last.pre, last.trace)

\* C3: a load whose header decoding fails returns without raising, allocates
\* and deserializes nothing, and leaves the archive with no states, having
\* freed whatever it held.
C3_HeaderFailureEmpties ==
    (last.op = "load" /\ ~last.info.hdrOk)
        => /\ ~last.raised
           /\ states_ = <<>>
           /\ Events("alloc") = {} /\ Events("append") = {}
           /\ last.bulk = "none"
           /\ last.msg # "none"
           /\ \A h \in Handles : ~heap[h].live

C3_Witness ==
    /\ last.op = "load" /\ ~last.info.hdrOk
    /\ Len(last.pre) = MaxStates
    /\ ErrorKind(last.msg) = "SignatureMismatch"
    /\ last.info.stage = "signature"

\* The payload cells the stream of the last load held after its header.
PayloadCells == Len(last.in0.cells) - (1 + Len(sig_) + 2)

C5_FactoryCheck ==
    last.op = "invoke"
        => /\ last.expected = sig_
           /\ (computeSignature(last.space) # last.expected)
                  => (last.raised /\ last.returned = <<>>)
           /\ (computeSignature(last.space) = last.expected)
                  => (~last.raised /\ last.returned # <<>>
                      /\ last.returned.space = last.space
                      /\ sampler.space = last.space
                      /\ sampler.states = last.returned.states)

\* The two signatures have the same declared length and differ in the body.
C5_Witness ==
    /\ last.op = "invoke" /\ last.raised
    /\ computeSignature(last.space)[1] = last.expected[1]
    /\ computeSignature(last.space) # last.expected

\* C6: store on a writable stream writes the marker, the live signature, the
\* collection size, metadata size 0 and then the states' serializations, state
\* i at payload offset i * l, and nothing else.
C6_StoreLayout ==
    (last.op = "store" /\ last.writable /\ ~last.raised)
        => LET n == Len(states_)
               hdr == 1 + Len(sig_) + 2
           IN  /\ last.written = file.cells
               /\ Len(file.cells) = hdr + n * l_
               /\ file.cells[1] = OMPL_ARCHIVE_MARKER
               /\ file.cells[2] = Len(sig_) - 1
               /\ SubSeq(file.cells, 2, 1 + Len(sig_)) = sig_
               /\ file.cells[hdr - 1] = n
               /\ file.cells[hdr] = 0
               /\ \A i \in 0..(n - 1) :
                     SubSeq(file.cells, hdr + i * l_ + 1, hdr + i * l_ + l_)
                         = Value(states_[i + 1])

\* Two states of two bytes each with different values were stored.
C6_Witness ==
    /\ last.op = "store" /\ last.writable
    /\ Len(states_) >= 2 /\ l_ = 2
    /\ Value(states_[1]) # Value(states_[2])

\* The stream of the last load held the marker and the whole live signature.
MarkerAndSignatureMatch ==
    /\ Len(last.in0.cells) >= 1 + Len(sig_)
    /\ last.in0.cells[1] = OMPL_ARCHIVE_MARKER
    /\ SubSeq(last.in0.cells, 2, 1 + Len(sig_)) = sig_

\* C7: a stream with the right marker and a matching signature that ends
\* before state_count or before metadata_size has been read makes header
\* decoding fail with TruncatedHeader, whatever state_count is.
C7_TruncatedHeader ==
    (last.op = "load" /\ last.okOpen /\ MarkerAndSignatureMatch
            /\ Len(last.in0.cells) < 1 + Len(sig_) + 2)
        => (~last.info.hdrOk /\ ErrorKind(last.msg) = "TruncatedHeader")

\* The signature stored in the stream of the last load, when all of it is there.
HasStoredSignature ==
    /\ Len(last.in0.cells) >= 2
    /\ last.in0.cells[2] >= 0
    /\ Len(last.in0.cells) >= 2 + last.in0.cells[2]
StoredSignature == SubSeq(last.in0.cells, 2, 2 + last.in0.cells[2])
SignatureCheckPassed ==
    last.info.stage \notin {"open", "marker", "signature_length", "signature"}

\* C8: loadHeader passes its signature check exactly when the stored and the
\* live signature are equal element by element, declared length included, which
\* is exactly when the sampler factory accepts the live space for the stored
\* signature; so after an accepted load, a factory of the archive invoked on
\* the archive's space does not raise.
C8_SameRule ==
    /\ (last.op = "load" /\ last.okOpen /\ last.markerOk /\ HasStoredSignature)
        => /\ SignatureCheckPassed <=> (StoredSignature = sig_)
           /\ SignatureCheckPassed
                <=> ~allocPrecomputedStateSampler(space_, StoredSignature, <<>>).raised
    /\ (last.op = "load" /\ last.info.hdrOk)
        => ~allocPrecomputedStateSampler(space_,
                getStateSamplerAllocator(space_, states_).sig,
                getStateSamplerAllocator(space_, states_).states).raised

\* Same declared length, different body: rejected by both.
C8_Witness ==
    /\ last.op = "load" /\ last.okOpen /\ last.markerOk /\ HasStoredSignature
    /\ StoredSignature[1] = sig_[1]
    /\ StoredSignature # sig_
    /\ ~SignatureCheckPassed

\* C9: a sampler made by a factory draws by index from the collection as it is
\* now, not as it was when the factory was made, and the factory checks
\* against the signature computed when it was made.
C9_FactoryHoldsReference ==
    /\ last.op = "sample"
        => /\ last.range = Len(states_)
           /\ last.idx \in 1..Len(states_)
           /\ last.h = states_[last.idx]
    /\ factory # <<>> => factory.sig = sig_
    /\ last.op = "invoke" => last.expected = factory.sig

\* The state drawn was added after the factory was made.
C9_Witness ==
    /\ last.op = "sample"
    /\ last.idx > Len(last.created)
    /\ Len(last.created) > 0

\* C10: generateSamples(k) that does not fail appends exactly k states, newly
\* allocated and holding the sampled values in generation order, after the
\* states held before, which keep their handles and order.
C10_GenerateSamples ==
    (last.op = "generateSamples" /\ ~last.raised)
        => LET n == Len(last.pre)
               k == last.count
           IN  /\ Len(states_) = n + k
               /\ SubSeq(states_, 1, n) = last.pre
               /\ \A i \in 1..k :
                     /\ states_[n + i] \notin Range(last.pre)
                     /\ heap[states_[n + i]].live
                     /\ heap[states_[n + i]].val = last.vals[i]
                     /\ last.trace[2 * i - 1] = <<"alloc", states_[n + i]>>
                     /\ last.trace[2 * i] = <<"append", states_[n + i]>>
               /\ Len(last.trace) = 2 * k
               /\ Cardinality(Range(states_)) = n + k

C10_Witness ==
    /\ last.op = "generateSamples" /\ ~last.raised
    /\ Len(last.pre) > 0
    /\ last.count > 0

\* The number of times the last operation handed h to freeState.
Frees(h) == Cardinality({i \in DOMAIN last.trace : last.trace[i] = <<"free", h>>})

\* C11: clear(), also the one the destructor runs, leaves the collection empty
\* and has handed each element to freeState exactly once, in order; a clear()
\* right after a clear(), or on an archive that holds nothing, frees nothing,
\* raises nothing and leaves the collection empty.
C11_IdempotentClear ==
    /\ last.op \in {"clear", "destruct"}
        => /\ states_ = <<>>
           /\ ~last.raised
           /\ last.trace = [i \in 1..Len(last.pre) |-> <<"free", last.pre[i]>>]
           /\ \A h \in Handles :
                 Frees(h) = IF h \in Range(last.pre) THEN 1 ELSE 0
           /\ \A h \in Range(last.pre) : ~heap[h].live
    /\ (last.op \in {"clear", "destruct"}
            /\ (last.after[1] \in {"clear", "construct"} \/ last.pre = <<>>))
        => /\ last.pre = <<>>
           /\ last.trace = <<>>
           /\ states_ = <<>>
           /\ ~last.raised

\* A clear() right after a clear() that released a full collection.
C11_Witness ==
    /\ last.op = "clear"
    /\ last.after = <<"clear", MaxStates>>

\* C12: store on a stream that is not writable makes no write call, not even
\* for the marker, reports one warning (IOUnavailable) and nothing at error
\* level, raises nothing and leaves the collection and its states as they were.
C12_StoreUnwritable ==
    (last.op = "store" /\ ~last.writable)
        => /\ last.written = <<>>
           /\ ErrorKind(last.msg) = "IOUnavailable"
           /\ Severity(last.msg) = "warn"
           /\ ~last.raised
           /\ states_ = last.pre
           /\ \A i \in DOMAIN states_ : heap[states_[i]].live

\* The archive held a full collection and a file already existed.
C12_Witness ==
    /\ last.op = "store" /\ ~last.writable
    /\ Len(states_) = MaxStates
    /\ file.by # "none"

\* The stream of the last load holds the marker and then a proper prefix of
\* the live signature (none of it, or its first elements), and ends there or
\* inside the next element.
EndsInsideSignature ==
    /\ Len(last.in0.cells) >= 1
    /\ Len(last.in0.cells) < 1 + Len(sig_)
    /\ last.in0.cells = SubSeq(<<OMPL_ARCHIVE_MARKER>> \o sig_, 1, Len(last.in0.cells))

\* C13: when the stream ends while the signature length or a signature element
\* is being read, header decoding fails with TruncatedHeader or FormatError,
\* never with SignatureMismatch and never with success, whatever the live
\* signature is.
C13_NoZeroCompare ==
    (last.op = "load" /\ last.okOpen /\ EndsInsideSignature)
        => /\ ~last.info.hdrOk
           /\ ErrorKind(last.msg) \in {"TruncatedHeader", "FormatError"}

\* The payload of the stream of the last load: what follows its header.
Payload == SubSeq(last.in0.cells, 1 + Len(sig_) + 2 + 1, Len(last.in0.cells))

\* C14: a load whose header is accepted with state_count = n and
\* metadata_size = m, and whose stream holds the n * (l + m) payload bytes,
\* yields n states, state i decoded from the l bytes at offset i * (l + m);
\* the states of a file do not depend on what its metadata bytes hold.
C14_MetadataSkipped ==
    (last.op = "load" /\ last.info.hdrOk /\ Returned
            /\ PayloadCells >= last.info.state_count * (l_ + last.info.metadata_size))
        => LET n == last.info.state_count
               m == last.info.metadata_size
           IN  /\ Len(states_) = n
               /\ \A i \in 0..(Len(states_) - 1) :
                     Value(states_[i + 1])
                         = SubSeq(Payload, i * (l_ + m) + 1, i * (l_ + m) + l_)
               /\ (last.whole /\ file.by = "forge")
                     => \A i \in DOMAIN states_ : Value(states_[i]) = file.orig[i]

\* The size product of the header of the last load, as the integers give it.
TrueProduct == last.info.state_count * (l_ + last.info.metadata_size)

\* C15: after an accepted header, whatever state_count and metadata_size are
\* and with the buffer length computed modulo 2^SizeBits, no per-state decode
\* reads outside the scratch buffer; and a header whose size product wraps
\* around never ends in a load without a diagnostic that produced fewer
\* states than state_count.
C15_ScratchBounds ==
    (last.op = "load" /\ last.info.hdrOk)
        => /\ ~last.oob
           /\ (TrueProduct >= SizeMod /\ Returned /\ last.msg = "none")
                 => Len(states_) = last.info.state_count

\* The operations that record the allocState, addState and freeState calls
\* they made.
Traced == last.op \in {"addState", "generateSamples", "load", "clear", "destruct"}

\* C16: with callers that hand addState handles they have just allocated
\* (live, not in the collection), after any sequence of operations the
\* collection holds live, pairwise different handles and every live state is
\* in it; no operation frees a handle twice or frees one the collection did
\* not hold; after clear and after destruction no state is live; addState
\* stores the handle it was given and allocates nothing.
C16_ExclusiveOwnership ==
    ~(last.op = "load" /\ last.crashed)
        => /\ \A i \in DOMAIN states_ : heap[states_[i]].live
           /\ \A i, j \in DOMAIN states_ : states_[i] = states_[j] => i = j
           /\ \A h \in Handles : heap[h].live => h \in Range(states_)
           /\ Traced
                 => \A h \in Handles :
                       /\ Frees(h) <= 1
                       /\ Frees(h) = 1 => h \in Range(last.pre)
           /\ last.op \in {"clear", "destruct"}
                 => /\ \A h \in Handles : ~heap[h].live
                    /\ \A h \in Range(last.pre) : Frees(h) = 1
           /\ last.op = "addState"
                 => /\ states_ = Append(last.pre, last.h)
                    /\ last.trace = <<<<"append", last.h>>>>
                    /\ Cardinality({h \in Handles : heap[h].live}) = Len(last.pre) + 1

\* A clear() of a collection that a load filled after releasing what an
\* earlier operation had put there.
C16_Witness ==
    /\ last.op = "clear"
    /\ last.after[1] = "load"
    /\ Len(last.pre) >= 2

\* C17: when a load or a store ends, by returning or by an error thrown out
\* of its per-state pass, every scratch buffer the call obtained from malloc
\* has been handed to free exactly once.
C17_ScratchReleased ==
    (last.op \in {"load", "store"} /\ ~(last.op = "load" /\ last.crashed))
        => last.scratch.released = last.scratch.acquired

\* C18: store, on a writable stream or not, and print leave the collection
\* with the same handles in the same order and allocate and free no state.
C18_ReadOnly ==
    last.op \in {"store", "print"}
        => /\ states_ = last.pre
           /\ heap = last.heapPre
           /\ \A i \in DOMAIN states_ : heap[states_[i]].live

\* A full collection was stored and then printed.
C18_Witness ==
    /\ last.op = "print"
    /\ Len(last.printed) = MaxStates
    /\ file.by = "store"
    /\ Len(file.orig) = MaxStates

====
